---- MODULE Spec2Model ----
(***************************************************************************)
(* A model of deluge_web_client.DelugeWebClient: the call engine           *)
(* (execute_call, _normalize_exception), the login handshake and the       *)
(* compound upload sequence.  One action is one HTTP round trip of the     *)
(* operation in progress together with all the Python code that runs up to *)
(* the next round trip (or up to the operation's return / raise).  The     *)
(* server's replies are the environment's inputs.                          *)
(***************************************************************************)
EXTENDS Integers, Sequences, FiniteSets, TLC

VARIABLES
    ID,         \* DelugeWebClient.ID as seen through self (client.py:15, :602)
    ids,        \* the id of every request handed to session.post, in order
    sent,       \* the requests of the operation in progress (or the last one run)
    recv,       \* the HTTP replies to them
    op,         \* the public operation in progress, or the last one that ran
    pc,         \* "idle", or the next round trip of the operation in progress
    args,       \* the arguments and locals of that operation
    outcome,    \* how the last operation ended: returned a Response or raised
    scope,      \* `with client:` -- "out" of it, in __enter__ ("enter"), in its "body"
    entered,    \* number of with statements begun (__enter__ calls)
    bodies,     \* number of with bodies entered
    closes,     \* number of close_session calls
    left,       \* the last with body left: the exception it raised, the one let out
    batch,      \* upload_torrents: its sources, the one in progress, results, ending
    url_in,     \* the url argument of DelugeWebClient(url, password)
    url,        \* self.url
    exc_str,    \* _normalize_exception: the value handed in
    norm_out,   \* _normalize_exception: results of its successive applications
    state_value,\* TorrentState(value): the value looked up
    state_found,\* TorrentState(value): the member found, or the exception
    other,      \* a second DelugeWebClient of the process: its ID, ids, last outcome
    threads,    \* the threads that call the one client: where each is, its locals
    linked,     \* the server: its web UI is connected to a daemon
    drops       \* the server: how many times that connection was lost

vars == <<ID, ids, sent, recv, op, pc, args, outcome,
          scope, entered, bodies, closes, left, batch, url_in, url,
          exc_str, norm_out, state_value, state_found, other,
          threads, linked, drops>>

scopeVars == <<scope, entered, bodies, closes, left>>
batchVars == <<batch>>
urlVars == <<url_in, url>>
clientVars == <<ID, ids, sent, recv, op, pc, args, outcome, scopeVars, batchVars,
                urlVars>>
normVars == <<exc_str, norm_out>>
lookupVars == <<state_value, state_found>>
\* what is modelled apart from the one client and its session
instanceVars == <<other>>
threadVars == <<threads>>
serverVars == <<linked, drops>>
asideVars == <<lookupVars, instanceVars, threadVars, serverVars>>
\* what the operations on the session leave alone
otherVars == <<batchVars, urlVars, normVars, asideVars>>

(***************************************************************************)
(* Bounds of the model.                                                    *)
(***************************************************************************)
MaxCalls == 6       \* requests transmitted in one behaviour
MaxStrLen == 6      \* length of the strings handed to _normalize_exception
MaxApply == 2       \* successive applications of _normalize_exception
MaxUrlLen == 6      \* length of the url handed to DelugeWebClient()
MaxThreadCalls == 1 \* calls made by each thread
MaxLoginCalls == 9  \* requests transmitted by repeated logins
MaxDrops == 1       \* times the server loses its daemon

(***************************************************************************)
(* JSON values.  Every value is a record of one shape, so that any two can *)
(* be compared; a string is a sequence of one-character strings.           *)
(***************************************************************************)
JNull == [t |-> "null", b |-> FALSE, n |-> 0, s |-> <<>>, l |-> <<>>]
JBool(b) == [t |-> "bool", b |-> b, n |-> 0, s |-> <<>>, l |-> <<>>]
JInt(n) == [t |-> "int", b |-> FALSE, n |-> n, s |-> <<>>, l |-> <<>>]
JStr(s) == [t |-> "str", b |-> FALSE, n |-> 0, s |-> s, l |-> <<>>]
JList(l) == [t |-> "list", b |-> FALSE, n |-> 0, s |-> <<>>, l |-> l]
\* a structured error mapping {"message": s, "code": n}
JDict(s, n) == [t |-> "dict", b |-> FALSE, n |-> n, s |-> s, l |-> <<>>]

\* Python truthiness of a decoded JSON value
Truthy(v) ==
    CASE v.t = "null" -> FALSE
      [] v.t = "bool" -> v.b
      [] v.t = "int" -> v.n # 0
      [] v.t = "str" -> v.s # <<>>
      [] v.t = "list" -> v.l # <<>>
      [] OTHER -> TRUE

\* isinstance(v, list) and v
IsNonEmptyList(v) == v.t = "list" /\ v.l # <<>>

(***************************************************************************)
(* Strings: str.rstrip("]"), str.strip().                                  *)
(***************************************************************************)
Whitespace == {" ", "\t", "\n", "\r"}

RECURSIVE rstrip_chars(_, _)
rstrip_chars(s, chars) ==
    IF s # <<>> /\ s[Len(s)] \in chars
    THEN rstrip_chars(SubSeq(s, 1, Len(s) - 1), chars)
    ELSE s

RECURSIVE lstrip_chars(_, _)
lstrip_chars(s, chars) ==
    IF s # <<>> /\ s[1] \in chars
    THEN lstrip_chars(SubSeq(s, 2, Len(s)), chars)
    ELSE s

strip(s) == lstrip_chars(rstrip_chars(s, Whitespace), Whitespace)

UpperCase == <<"A","B","C","D","E","F","G","H","I","J","K","L","M",
               "N","O","P","Q","R","S","T","U","V","W","X","Y","Z">>
LowerCase == <<"a","b","c","d","e","f","g","h","i","j","k","l","m",
               "n","o","p","q","r","s","t","u","v","w","x","y","z">>

\* a mutant: the label is sent as it was given
lower_unchanged(s) == s

\* str.lower()
lower(s) ==
    [i \in 1..Len(s) |->
        IF \E k \in 1..26 : UpperCase[k] = s[i]
        THEN LowerCase[CHOOSE k \in 1..26 : UpperCase[k] = s[i]]
        ELSE s[i]]

\* sub in s
Contains(sub, s) ==
    \E i \in 0..(Len(s) - Len(sub)) : SubSeq(s, i + 1, i + Len(sub)) = sub

\* a mutant: the brackets are removed at both ends
normalize_strip_both_ends(exc) ==
    IF exc.t = "str"
    THEN JStr(strip(lstrip_chars(rstrip_chars(exc.s, {"]"}), {"]"})))
    ELSE exc

\* a mutant: the whitespace is trimmed before the bracket is removed
normalize_strip_first(exc) ==
    IF exc.t = "str" THEN JStr(rstrip_chars(strip(exc.s), {"]"})) ELSE exc

\* a mutant: at most one trailing bracket is removed
normalize_one_bracket(exc) ==
    IF exc.t = "str"
    THEN JStr(strip(IF exc.s # <<>> /\ exc.s[Len(exc.s)] = "]"
                    THEN SubSeq(exc.s, 1, Len(exc.s) - 1) ELSE exc.s))
    ELSE exc

\* DelugeWebClient._normalize_exception
_normalize_exception(exc) ==
    IF exc.t = "str" THEN JStr(strip(rstrip_chars(exc.s, {"]"}))) ELSE exc

(***************************************************************************)
(* Responses, exceptions, outcomes.                                        *)
(***************************************************************************)
Response(result, error, id) == [result |-> result, error |-> error, id |-> id]

NoPayload == [method |-> "", params |-> <<>>, id |-> -1]
NoResponse == Response(JNull, JNull, JNull)
NoExc == [msg |-> "", status_code |-> 0, reason |-> "", payload |-> NoPayload,
          error |-> JNull]

\* f"Failed to execute call. Response code: {status_code}. Reason: {reason}"
ExecuteFailed(status_code, reason) ==
    [msg |-> "Failed to execute call", status_code |-> status_code,
     reason |-> reason, payload |-> NoPayload, error |-> JNull]

\* f"Payload: {payload}, Error: {data.error}"
PayloadError(payload, error) ==
    [msg |-> "Payload", status_code |-> 0, reason |-> "", payload |-> payload,
     error |-> error]

\* f"Failed to upload file. Status code: {status_code}, Reason: {reason}"
UploadFailed(status_code, reason) ==
    [msg |-> "Failed to upload file", status_code |-> status_code,
     reason |-> reason, payload |-> NoPayload, error |-> JNull]

\* f"Error adding label:\n{response.error}"
LabelError(error) ==
    [msg |-> "Error adding label", status_code |-> 0, reason |-> "",
     payload |-> NoPayload, error |-> error]

NoOutcome == [kind |-> "none", resp |-> NoResponse, exc |-> NoExc]
Return(resp) == [kind |-> "return", resp |-> resp, exc |-> NoExc]
Raise(exc) == [kind |-> "raise", resp |-> NoResponse, exc |-> exc]

LoginFailed == <<"L","o","g","i","n"," ","f","a","i","l","e","d">>
FailedToConnect == <<"F","a","i","l","e","d"," ","t","o"," ","c","o","n","n","e",
                     "c","t"," ","t","o"," ","h","o","s","t">>

\* DelugeWebClient._create_failure_response
_create_failure_response(error_message) ==
    Response(JBool(FALSE), JStr(error_message), JNull)

(***************************************************************************)
(* The transport: what session.post can answer.                            *)
(***************************************************************************)
HttpOk(result, error, id) ==
    [ok |-> TRUE, status_code |-> 200, reason |-> "OK",
     json |-> [result |-> result, error |-> error, id |-> id]]
HttpFail(status_code, reason) ==
    [ok |-> FALSE, status_code |-> status_code, reason |-> reason,
     json |-> [result |-> JNull, error |-> JNull, id |-> JNull]]

Host1 == <<"h","1">>
Host2 == <<"h","2">>
Hash == <<"a","b","c">>

Results ==
    { JNull, JBool(TRUE), JBool(FALSE), JStr(Hash),
      JList(<<>>),                                      \* no host known
      JList(<<JStr(Host1)>>),                           \* first entry not a list
      JList(<<JList(<<>>)>>),                           \* first entry empty
      JList(<<JList(<<JStr(Host1)>>), JList(<<JStr(Host2)>>)>>) }

LabelExists == <<"L","a","b","e","l"," ","a","l","r","e","a","d","y"," ",
                 "e","x","i","s","t","s">>

Errors ==
    { JStr(<<>>), JStr(<<"]">>), JStr(<<"e","r","r","]">>),
      JDict(<<"e","r","r">>, 2),
      JStr(LabelExists \o <<"]">>), JDict(LabelExists, 1) }

\* the replies to a request that carried `id`; the server echoes the id
Replies(id) ==
    {HttpOk(r, JNull, JInt(id)) : r \in Results}
    \cup {HttpOk(JNull, e, JInt(id)) : e \in Errors}
    \cup {HttpOk(JBool(TRUE), JStr(<<"e","r","r","]">>), JInt(id))}
    \cup {HttpFail(404, "Not Found"), HttpFail(500, "Internal Server Error")}

(***************************************************************************)
(* The call engine.                                                        *)
(***************************************************************************)
DefaultTimeout == 30
Timeouts == {DefaultTimeout, 5}
Password == <<"p","w">>

\* a mutant: every payload carries the same id
Payload_fixed_id(method, params, id) == [method |-> method, params |-> params, id |-> 1]

\* the payload dict of an operation: {"method": ..., "params": ..., "id": self.ID}
Payload(method, params, id) == [method |-> method, params |-> params, id |-> id]

\* a mutant: the counter is left as it was
IncrementID_skipped(id) == id

\* self.ID += 1
IncrementID(id) == id + 1

\* a mutant: a non-success status is answered with an empty Response
execute_call_swallow_status(payload, handle_error, http) ==
    IF http.ok
    THEN LET data == Response(http.json.result,
                              _normalize_exception(http.json.error),
                              http.json.id)
         IN IF handle_error /\ Truthy(data.error)
            THEN Raise(PayloadError(payload, data.error))
            ELSE Return(data)
    ELSE Return(Response(JNull, JNull, JNull))

\* a mutant: handle_error is ignored, every populated error is raised
execute_call_always_raise(payload, handle_error, http) ==
    IF http.ok
    THEN LET data == Response(http.json.result,
                              _normalize_exception(http.json.error),
                              http.json.id)
         IN IF Truthy(data.error)
            THEN Raise(PayloadError(payload, data.error))
            ELSE Return(data)
    ELSE Raise(ExecuteFailed(http.status_code, http.reason))

\* DelugeWebClient.execute_call, from the reply on: how the call ends
execute_call(payload, handle_error, http) ==
    IF http.ok
    THEN LET data == Response(http.json.result,
                              _normalize_exception(http.json.error),
                              http.json.id)
         IN IF handle_error /\ Truthy(data.error)
            THEN Raise(PayloadError(payload, data.error))
            ELSE Return(data)
    ELSE Raise(ExecuteFailed(http.status_code, http.reason))

\* session.post(url, json=payload, timeout=timeout) followed by self.ID += 1
Post(payload, timeout, http, requests, received) ==
    /\ ids' = Append(ids, payload.id)
    /\ sent' = Append(requests, [method |-> payload.method, params |-> payload.params,
                             id |-> payload.id, timeout |-> timeout])
    /\ recv' = Append(received, http)
    /\ ID' = IncrementID(ID)

(***************************************************************************)
(* Operations.  A step result says where the operation goes after a call:  *)
(* it ends (pc "idle") with an outcome, or goes on to its next round trip. *)
(***************************************************************************)
NoArgs == [method |-> "", timeout |-> DefaultTimeout, handle_error |-> TRUE,
           label |-> JNull, host_id |-> JNull, info_hash |-> <<>>,
           source |-> <<>>, add_paused |-> FALSE,
           \* of a login: it was invoked after a login that returned success, the
           \* server still linked, and the number of links lost until then
           again |-> FALSE, drops |-> 0]

Done(o, a) == [pc |-> "idle", outcome |-> o, args |-> a]
Continue(next, a) == [pc |-> next, outcome |-> NoOutcome, args |-> a]

CanCall(n) == Len(ids) + n <= MaxCalls

\* a public operation is entered with arguments `a`; its first round trip is
\* at `first`
Begin(name, first, a) ==
    /\ pc = "idle"
    /\ op' = name
    /\ pc' = first
    /\ args' = a
    /\ sent' = <<>>
    /\ recv' = <<>>
    /\ outcome' = NoOutcome
    /\ UNCHANGED <<ID, ids, otherVars>>

\* the caller invokes a public operation
Invoke(name, first, a) == Begin(name, first, a) /\ UNCHANGED scopeVars

\* one request / reply exchange; `r` is where the code goes on from the reply
Exchange(payload, timeout, http, r) ==
    /\ Post(payload, timeout, http, sent, recv)
    /\ pc' = r.pc
    /\ outcome' = r.outcome
    /\ args' = r.args
    /\ UNCHANGED <<op, scopeVars, otherVars>>

\* a pass-through operation (check_connected, get_hosts, ...): return execute_call(...)
pass_through(o, a) == Done(o, a)

SimpleMethods == {"web.connected", "web.get_hosts"}

\* check_connected() / get_hosts(), or execute_call invoked with a payload built
\* the same way and handle_error chosen by the caller
Call(method, handle_error) ==
    /\ CanCall(1)
    /\ Invoke("execute_call", "execute_call",
              [NoArgs EXCEPT !.method = method, !.handle_error = handle_error])

CallRoundTrip ==
    /\ pc = "execute_call"
    /\ LET payload == Payload(args.method, <<>>, ID)
       IN \E http \in Replies(payload.id) :
              Exchange(payload, args.timeout, http,
                       pass_through(execute_call(payload, args.handle_error, http), args))

(***************************************************************************)
(* login                                                                   *)
(***************************************************************************)
\* a mutant: the connectivity check is made whatever auth.login answered
login_after_attempt_no_check(o, a) ==
    IF o.kind = "raise" THEN Done(o, a) ELSE Continue("login_is_connected", a)

\* a mutant: a refused password is raised instead of being returned
login_after_attempt_raises(o, a) ==
    IF o.kind = "raise" THEN Done(o, a)
    ELSE IF ~Truthy(o.resp.result)
         THEN Done(Raise(PayloadError(NoPayload, JStr(LoginFailed))), a)
         ELSE Continue("login_is_connected", a)

\* login, lines 41-43: after _attempt_login
login_after_attempt(o, a) ==
    IF o.kind = "raise" THEN Done(o, a)
    ELSE IF ~Truthy(o.resp.result)
         THEN Done(Return(_create_failure_response(LoginFailed)), a)
         ELSE Continue("login_is_connected", a)

\* a mutant: the short cut is not taken, the host list is always fetched
login_after_is_connected_no_shortcut(o, a) ==
    IF o.kind = "raise" THEN Done(o, a) ELSE Continue("login_get_hosts", a)

\* a mutant: the short cut is taken when the check says not connected
login_after_is_connected_inverted(o, a) ==
    IF o.kind = "raise" THEN Done(o, a)
    ELSE IF ~Truthy(o.resp.result)
         THEN Done(Return(Response(JBool(TRUE), JNull, JNull)), a)
         ELSE Continue("login_get_hosts", a)

\* login, lines 46-50 with _is_connected: after the first check_connected
login_after_is_connected(o, a) ==
    IF o.kind = "raise" THEN Done(o, a)
    ELSE IF Truthy(o.resp.result)
         THEN Done(Return(Response(JBool(TRUE), JNull, JNull)), a)
         ELSE Continue("login_get_hosts", a)

\* a mutant: the last host entry is taken instead of the first
connect_after_get_hosts_last_host(o, a) ==
    IF o.kind = "raise" THEN Done(o, a)
    ELSE IF IsNonEmptyList(o.resp.result)
            /\ IsNonEmptyList(o.resp.result.l[Len(o.resp.result.l)])
         THEN Continue("login_connect",
                       [a EXCEPT !.host_id = o.resp.result.l[Len(o.resp.result.l)].l[1]])
         ELSE Done(Return(_create_failure_response(FailedToConnect)), a)

\* a mutant: the first entry is taken as the host without looking at its shape
connect_after_get_hosts_unchecked_entry(o, a) ==
    IF o.kind = "raise" THEN Done(o, a)
    ELSE IF IsNonEmptyList(o.resp.result)
         THEN Continue("login_connect", [a EXCEPT !.host_id = o.resp.result.l[1]])
         ELSE Done(Return(_create_failure_response(FailedToConnect)), a)

\* _connect_to_first_host, lines 67-72: after get_hosts
connect_after_get_hosts(o, a) ==
    IF o.kind = "raise" THEN Done(o, a)
    ELSE IF IsNonEmptyList(o.resp.result) /\ IsNonEmptyList(o.resp.result.l[1])
         THEN Continue("login_connect",
                       [a EXCEPT !.host_id = o.resp.result.l[1].l[1]])
         ELSE Done(Return(_create_failure_response(FailedToConnect)), a)

\* a mutant: success is reported on the web.connect reply, without a re-check
connect_after_connect_to_host_no_recheck(o, a) ==
    IF o.kind = "raise" THEN Done(o, a)
    ELSE IF Truthy(o.resp.result)
         THEN Done(Return(Response(JBool(TRUE), JNull, JNull)), a)
         ELSE Done(Return(_create_failure_response(FailedToConnect)), a)

\* _connect_to_first_host, lines 73-77: after connect_to_host
connect_after_connect_to_host(o, a) ==
    IF o.kind = "raise" THEN Done(o, a)
    ELSE IF Truthy(o.resp.result)
         THEN Continue("login_recheck", a)
         ELSE Done(Return(_create_failure_response(FailedToConnect)), a)

\* _connect_to_first_host, line 75: return self.check_connected(timeout)
connect_after_recheck(o, a) == Done(o, a)

\* login(timeout)
Login(timeout) ==
    /\ CanCall(5)
    /\ Invoke("login", "login_attempt", [NoArgs EXCEPT !.timeout = timeout])

\* login: _attempt_login(timeout)
LoginAttempt ==
    /\ pc = "login_attempt"
    /\ LET payload == Payload("auth.login", <<JStr(Password)>>, ID)
       IN \E http \in Replies(payload.id) :
              Exchange(payload, args.timeout, http,
                       login_after_attempt(execute_call(payload, TRUE, http), args))

\* login: _is_connected(timeout)
LoginIsConnected ==
    /\ pc = "login_is_connected"
    /\ LET payload == Payload("web.connected", <<>>, ID)
       IN \E http \in Replies(payload.id) :
              Exchange(payload, args.timeout, http,
                       login_after_is_connected(execute_call(payload, TRUE, http), args))

\* _connect_to_first_host: self.get_hosts()
LoginGetHosts ==
    /\ pc = "login_get_hosts"
    /\ LET payload == Payload("web.get_hosts", <<>>, ID)
       IN \E http \in Replies(payload.id) :
              Exchange(payload, DefaultTimeout, http,
                       connect_after_get_hosts(execute_call(payload, TRUE, http), args))

\* _connect_to_first_host: self.connect_to_host(host_id)
LoginConnect ==
    /\ pc = "login_connect"
    /\ LET payload == Payload("web.connect", <<args.host_id>>, ID)
       IN \E http \in Replies(payload.id) :
              Exchange(payload, DefaultTimeout, http,
                       connect_after_connect_to_host(execute_call(payload, TRUE, http), args))

\* _connect_to_first_host: return self.check_connected(timeout)
LoginRecheck ==
    /\ pc = "login_recheck"
    /\ LET payload == Payload("web.connected", <<>>, ID)
       IN \E http \in Replies(payload.id) :
              Exchange(payload, args.timeout, http,
                       connect_after_recheck(execute_call(payload, TRUE, http), args))

(***************************************************************************)
(* Labels.                                                                 *)
(***************************************************************************)
\* a mutant: the already-exists error is not tolerated
add_label_result_no_tolerance(o) ==
    IF o.kind = "raise" THEN o
    ELSE IF o.resp.error.t = "null" THEN o
    ELSE Raise(LabelError(o.resp.error))

\* a mutant: whatever error label.add reports is handed back
add_label_result_swallow_all(o) == o

\* add_label, lines 359-367: what becomes of execute_call's outcome
add_label_result(o) ==
    IF o.kind = "raise" THEN o
    ELSE IF o.resp.error.t = "null" THEN o
    ELSE IF o.resp.error.t = "dict" /\ Contains(LabelExists, o.resp.error.s) THEN o
    ELSE Raise(LabelError(o.resp.error))

add_label_return(o, a) == Done(add_label_result(o), a)

\* add_label(label)
AddLabel(label) ==
    /\ CanCall(1)
    /\ Invoke("add_label", "add_label", [NoArgs EXCEPT !.label = JStr(label)])

AddLabelRoundTrip ==
    /\ pc = "add_label"
    /\ LET payload == Payload("label.add", <<JStr(lower(args.label.s))>>, ID)
       IN \E http \in Replies(payload.id) :
              Exchange(payload, args.timeout, http,
                       add_label_return(execute_call(payload, FALSE, http), args))

\* set_label(info_hash, label)
SetLabel(info_hash, label) ==
    /\ CanCall(1)
    /\ Invoke("set_label", "set_label",
              [NoArgs EXCEPT !.label = JStr(label), !.info_hash = info_hash])

SetLabelRoundTrip ==
    /\ pc = "set_label"
    /\ LET payload == Payload("label.set_torrent",
                              <<JStr(args.info_hash), JStr(lower(args.label.s))>>, ID)
       IN \E http \in Replies(payload.id) :
              Exchange(payload, args.timeout, http,
                       pass_through(execute_call(payload, TRUE, http), args))

(***************************************************************************)
(* test_listen_port                                                        *)
(***************************************************************************)
\* an operation returned a plain value, not a Response
ReturnValue(v) == [kind |-> "value", resp |-> Response(v, JNull, JNull),
                   exc |-> NoExc]

\* test_listen_port, lines 514-517: True if check_port.result is not None
test_listen_port_result(o) ==
    IF o.kind = "raise" THEN o ELSE ReturnValue(JBool(o.resp.result # JNull))

test_listen_port_return(o, a) == Done(test_listen_port_result(o), a)

\* test_listen_port(timeout)
TestListenPort(timeout) ==
    /\ CanCall(1)
    /\ Invoke("test_listen_port", "test_listen_port",
              [NoArgs EXCEPT !.timeout = timeout])

TestListenPortRoundTrip ==
    /\ pc = "test_listen_port"
    /\ LET payload == Payload("core.test_listen_port", <<>>, ID)
       IN \E http \in Replies(payload.id) :
              Exchange(payload, args.timeout, http,
                       test_listen_port_return(execute_call(payload, TRUE, http),
                                               args))

(***************************************************************************)
(* Uploads: upload_torrent, add_torrent_magnet, add_torrent_url.           *)
(***************************************************************************)
RECURSIVE PyJoin(_)
RECURSIVE PyRepr(_)
\* repr() of a decoded JSON value
PyRepr(v) ==
    CASE v.t = "null" -> <<"N","o","n","e">>
      [] v.t = "bool" -> IF v.b THEN <<"T","r","u","e">> ELSE <<"F","a","l","s","e">>
      [] v.t = "str" -> <<"'">> \o v.s \o <<"'">>
      [] v.t = "list" -> <<"[">> \o PyJoin(v.l) \o <<"]">>
      [] OTHER -> <<"?">>
\* ", ".join(repr(e) for e in l)
PyJoin(l) ==
    IF l = <<>> THEN <<>>
    ELSE IF Len(l) = 1 THEN PyRepr(l[1])
    ELSE PyRepr(l[1]) \o <<",", " ">> \o PyJoin(Tail(l))

\* str() of a decoded JSON value
PyStr(v) == IF v.t = "str" THEN v.s ELSE PyRepr(v)

\* add_torrent_url differs from add_torrent_magnet in the method name alone
IngestMethods == {"core.add_torrent_file", "core.add_torrent_magnet"}
Source == <<"s","r","c">>
Labels == {JNull, JStr(<<>>), JStr(<<"T","v">>)}

\* a mutant: the label steps are run for any label that is not None
upload_after_ingest_label_not_none(http, a) ==
    IF http.ok
    THEN LET info_hash == PyStr(http.json.result)
         IN IF a.label # JNull
            THEN Continue("upload_add_label", [a EXCEPT !.info_hash = info_hash])
            ELSE Continue("upload_resume", [a EXCEPT !.info_hash = info_hash])
    ELSE Done(Raise(UploadFailed(http.status_code, http.reason)), a)

\* a mutant: the status of the ingestion reply is not looked at
upload_after_ingest_ignores_status(http, a) ==
    LET info_hash == PyStr(http.json.result)
    IN IF Truthy(a.label)
       THEN Continue("upload_add_label", [a EXCEPT !.info_hash = info_hash])
       ELSE Continue("upload_resume", [a EXCEPT !.info_hash = info_hash])

\* _upload_helper, lines 274-285: after the ingestion request
upload_after_ingest(http, a) ==
    IF http.ok
    THEN LET info_hash == PyStr(http.json.result)
         IN IF Truthy(a.label)
            THEN Continue("upload_add_label", [a EXCEPT !.info_hash = info_hash])
            ELSE Continue("upload_resume", [a EXCEPT !.info_hash = info_hash])
    ELSE Done(Raise(UploadFailed(http.status_code, http.reason)), a)

\* a mutant: set_label is called whatever add_label did
apply_label_after_add_ignores_error(o, a) == Continue("upload_set_label", a)

\* _apply_label, lines 302-303: after add_label
apply_label_after_add(o, a) ==
    IF add_label_result(o).kind = "raise"
    THEN Done(add_label_result(o), a)
    ELSE Continue("upload_set_label", a)

\* _apply_label / _upload_helper, lines 303, 280: after set_label
apply_label_after_set(o, a) ==
    IF o.kind = "raise" THEN Done(o, a) ELSE Continue("upload_resume", a)

\* _upload_helper, lines 280-281: after resume_torrent
upload_after_resume(o, a) ==
    IF o.kind = "raise" THEN Done(o, a)
    ELSE Done(Return(Response(JStr(a.info_hash), JNull, JInt(1))), a)

\* ParamArgs(add_paused=add_paused, ...): the options an ingestion carries
ParamArgs(add_paused) == JBool(add_paused)

\* upload_torrent / add_torrent_magnet / add_torrent_url
Upload(method, label, add_paused) ==
    /\ CanCall(4)
    /\ Invoke("upload", "upload_ingest",
              [NoArgs EXCEPT !.method = method, !.label = label,
                             !.source = Source, !.add_paused = add_paused])

\* _upload_helper: session.post of the ingestion payload
UploadIngest ==
    /\ pc = "upload_ingest"
    /\ LET payload == Payload(args.method,
                              <<JStr(args.source), ParamArgs(args.add_paused)>>, ID)
       IN \E http \in Replies(payload.id) :
              Exchange(payload, args.timeout, http, upload_after_ingest(http, args))

\* _apply_label: self.add_label(label, timeout)
UploadAddLabel ==
    /\ pc = "upload_add_label"
    /\ LET payload == Payload("label.add", <<JStr(lower(PyStr(args.label)))>>, ID)
       IN \E http \in Replies(payload.id) :
              Exchange(payload, args.timeout, http,
                       apply_label_after_add(execute_call(payload, FALSE, http), args))

\* _apply_label: self.set_label(info_hash, label, timeout)
UploadSetLabel ==
    /\ pc = "upload_set_label"
    /\ LET payload == Payload("label.set_torrent",
                              <<JStr(args.info_hash), JStr(lower(PyStr(args.label)))>>,
                              ID)
       IN \E http \in Replies(payload.id) :
              Exchange(payload, args.timeout, http,
                       apply_label_after_set(execute_call(payload, TRUE, http), args))

\* _upload_helper: self.resume_torrent(info_hash, timeout)
UploadResume ==
    /\ pc = "upload_resume"
    /\ LET payload == Payload("core.resume_torrent", <<JStr(args.info_hash)>>, ID)
       IN \E http \in Replies(payload.id) :
              Exchange(payload, args.timeout, http,
                       upload_after_resume(execute_call(payload, TRUE, http), args))

(***************************************************************************)
(* The endpoint: __init__ sets self.url = self._build_url(url).            *)
(***************************************************************************)
\* str.endswith
endswith(s, suffix) ==
    Len(s) >= Len(suffix) /\ SubSeq(s, Len(s) - Len(suffix) + 1, Len(s)) = suffix

Json == <<"j","s","o","n">>

\* DelugeWebClient._build_url
_build_url(u) ==
    LET slashed == IF ~endswith(u, <<"/">>) THEN u \o <<"/">> ELSE u
        withJson == IF ~Contains(Json, slashed)
                    THEN slashed \o Json \o <<"/">> ELSE slashed
    IN rstrip_chars(withJson, {"/"})

\* DelugeWebClient(): url defaults to ""
DefaultUrl == <<>>

(***************************************************************************)
(* upload_torrents: a batch of torrent files.                              *)
(***************************************************************************)
NoBatchOut == [kind |-> "none", name |-> <<>>, cause |-> NoExc, results |-> <<>>]
NoBatch == [torrents |-> <<>>, k |-> 0, results |-> <<>>, out |-> NoBatchOut]

\* the position of the last `c` in s, 0 if there is none: s.rfind(c) + 1
RFind(s, c) ==
    IF \E i \in 1..Len(s) : s[i] = c
    THEN CHOOSE i \in 1..Len(s) : s[i] = c /\ \A j \in (i + 1)..Len(s) : s[j] # c
    ELSE 0

\* Path(p).name: the last component of the path
PathName(p) == SubSeq(p, RFind(p, "/") + 1, Len(p))

\* Path(p).stem: the name without its last suffix; a dot that begins or ends
\* the name starts no suffix
PathStem(p) ==
    LET name == PathName(p)
        dot == RFind(name, ".")
    IN IF 1 < dot /\ dot < Len(name) THEN SubSeq(name, 1, dot - 1) ELSE name

\* results[key] = value on a dict held as a sequence of entries
DictSet(d, key, value) ==
    IF \E i \in 1..Len(d) : d[i].key = key
    THEN [i \in 1..Len(d) |-> IF d[i].key = key
                                THEN [key |-> key, value |-> value] ELSE d[i]]
    ELSE Append(d, [key |-> key, value |-> value])

\* open(torrent_path, "rb") found no file
FileNotFound == [msg |-> "No such file or directory", status_code |-> 0,
                 reason |-> "", payload |-> NoPayload, error |-> JNull]

\* raise DelugeWebClientError(f"Failed to upload {torrent_path.name}:\n{e}")
BatchRaise(b, k, e) ==
    [b EXCEPT !.k = 0,
              !.out = [kind |-> "raise", name |-> PathName(b.torrents[k]),
                       cause |-> e, results |-> <<>>]]

\* return results
BatchReturn(b) ==
    [b EXCEPT !.k = 0,
              !.out = [kind |-> "return", name |-> <<>>, cause |-> NoExc,
                       results |-> b.results]]

\* upload_torrents, lines 172-180 with upload_torrent, lines 130-131: the loop
\* comes to source k; the file opens (`readable`) and its upload begins, or the
\* batch ends
upload_torrents_iteration(b, k, readable, a) ==
    IF k > Len(b.torrents)
    THEN [pc |-> "idle", args |-> a, batch |-> BatchReturn(b)]
    ELSE IF ~readable
         THEN [pc |-> "idle", args |-> a, batch |-> BatchRaise(b, k, FileNotFound)]
         ELSE [pc |-> "upload_ingest",
               args |-> [a EXCEPT !.source = b.torrents[k]],
               batch |-> [b EXCEPT !.k = k]]

\* a mutant: a failed upload is left out of the results and the loop goes on
upload_torrents_collect_skip_failed(b, o, readable, a) ==
    IF o.kind = "raise"
    THEN upload_torrents_iteration(b, b.k + 1, readable, a)
    ELSE upload_torrents_iteration(
             [b EXCEPT !.results = DictSet(@, PathStem(b.torrents[b.k]), o.resp)],
             b.k + 1, readable, a)

\* upload_torrents, lines 181-187: upload_torrent of source b.k ended with `o`
upload_torrents_collect(b, o, readable, a) ==
    IF o.kind = "raise"
    THEN [pc |-> "idle", args |-> a, batch |-> BatchRaise(b, b.k, o.exc)]
    ELSE upload_torrents_iteration(
             [b EXCEPT !.results = DictSet(@, PathStem(b.torrents[b.k]), o.resp)],
             b.k + 1, readable, a)

TorrentA == <<"a","/","x",".","t">>
TorrentB == <<"b","/","x",".","t">>
TorrentY == <<"a","/","y",".","t">>
Batches == {<<>>, <<TorrentA>>, <<TorrentA, TorrentY>>, <<TorrentA, TorrentB>>}
BatchLabels == {JNull, JStr(<<"T","v">>)}

\* the requests one upload_torrent makes at most
UploadCalls(label) == IF Truthy(label) THEN 4 ELSE 2

\* upload_torrents(torrents, label=label) on a new client, up to the first
\* ingestion request; `torrents` is the list the behaviour began with
UploadTorrents(label, readable) ==
    /\ pc = "idle"
    /\ op = "none"
    /\ CanCall(Len(batch.torrents) * UploadCalls(label))
    /\ LET r == upload_torrents_iteration(
                    batch, 1, readable,
                    [NoArgs EXCEPT !.method = "core.add_torrent_file",
                                   !.label = label])
       IN pc' = r.pc /\ args' = r.args /\ batch' = r.batch
    /\ op' = "upload_torrents"
    /\ sent' = <<>>
    /\ recv' = <<>>
    /\ outcome' = NoOutcome
    /\ UNCHANGED <<ID, ids, scopeVars, urlVars, normVars, asideVars>>

\* upload_torrents after upload_torrent returned or raised, up to the next
\* ingestion request or the end of the batch
UploadTorrentsCollect(readable) ==
    /\ batch.k > 0
    /\ pc = "idle"
    /\ LET r == upload_torrents_collect(batch, outcome, readable, args)
       IN pc' = r.pc /\ args' = r.args /\ batch' = r.batch
    /\ UNCHANGED <<ID, ids, sent, recv, op, outcome, scopeVars, urlVars, normVars,
                   asideVars>>

(***************************************************************************)
(* The scoped pattern: `with client:` runs __enter__, the body, __exit__.  *)
(***************************************************************************)
\* an exception raised by the body's own code
BodyError == [msg |-> "raised in the with body", status_code |-> 0, reason |-> "",
              payload |-> NoPayload, error |-> JNull]

NotLeft == [body |-> NoExc, out |-> NoExc]

\* close_session: self.session.close(), counted
close_session(n) == n + 1

\* a mutant: __exit__ returns without closing the session
exit_without_close(n) == [closes |-> n, suppress |-> FALSE]

\* __exit__(exc_type, exc_value, traceback): closes the session and returns
\* None, which `with` reads as "do not suppress"
__exit__(n) == [closes |-> close_session(n), suppress |-> FALSE]

\* `with client:` begins: __enter__ calls self.login()
WithEnter ==
    /\ scope = "out"
    /\ CanCall(5)
    /\ Begin("login", "login_attempt", NoArgs)
    /\ scope' = "enter"
    /\ entered' = entered + 1
    /\ UNCHANGED <<bodies, closes, left>>

\* __enter__ after login(): an exception of login leaves the with statement,
\* without __exit__ being run; otherwise __enter__ returns self, whatever the
\* Response of login says, and the body begins
WithEntered ==
    /\ scope = "enter"
    /\ pc = "idle"
    /\ IF outcome.kind = "raise"
       THEN scope' = "out" /\ left' = [body |-> NoExc, out |-> outcome.exc]
                           /\ UNCHANGED bodies
       ELSE scope' = "body" /\ bodies' = bodies + 1 /\ left' = NotLeft
    /\ UNCHANGED <<ID, ids, sent, recv, op, pc, args, outcome, entered, closes,
                   otherVars>>

\* an operation called in the body
BodyCall(method) == scope = "body" /\ Call(method, TRUE)

\* how the body can end after its operations: it completes, it leaves the
\* exception of its last operation uncaught, it raises one of its own
BodyEnds == {"return", "uncaught", "raise"}

\* the exception pending when the body ends that way (NoExc: none)
Pending(how) ==
    CASE how = "uncaught" -> outcome.exc
      [] how = "raise" -> BodyError
      [] OTHER -> NoExc

\* the body is left: __exit__ runs, and the pending exception goes on to the
\* caller unless __exit__ returned a true value
WithLeave(how) ==
    /\ scope = "body"
    /\ pc = "idle"
    /\ how = "uncaught" => op = "execute_call" /\ outcome.kind = "raise"
    /\ LET r == __exit__(closes)
       IN /\ closes' = r.closes
          /\ left' = [body |-> Pending(how),
                      out |-> IF r.suppress THEN NoExc ELSE Pending(how)]
    /\ scope' = "out"
    /\ UNCHANGED <<ID, ids, sent, recv, op, pc, args, outcome, entered, bodies,
                   otherVars>>

(***************************************************************************)
(* The client: construction and its next-state relation.                   *)
(***************************************************************************)
InitClient ==
    /\ ID = 0
    /\ ids = <<>>
    /\ sent = <<>>
    /\ recv = <<>>
    /\ op = "none"
    /\ pc = "idle"
    /\ args = NoArgs
    /\ outcome = NoOutcome
    /\ scope = "out"
    /\ entered = 0
    /\ bodies = 0
    /\ closes = 0
    /\ left = NotLeft

(***************************************************************************)
(* state.TorrentState: an Enum whose lookup by value falls back, for a     *)
(* value that is no member's value, on _missing_.                          *)
(***************************************************************************)
\* the members, in definition order
Members ==
    <<[name  |-> <<"A","L","L","O","C","A","T","I","N","G">>,
       value |-> <<"A","l","l","o","c","a","t","i","n","g">>],
      [name  |-> <<"C","H","E","C","K","I","N","G">>,
       value |-> <<"C","h","e","c","k","i","n","g">>],
      [name  |-> <<"D","O","W","N","L","O","A","D","I","N","G">>,
       value |-> <<"D","o","w","n","l","o","a","d","i","n","g">>],
      [name  |-> <<"S","E","E","D","I","N","G">>,
       value |-> <<"S","e","e","d","i","n","g">>],
      [name  |-> <<"P","A","U","S","E","D">>,
       value |-> <<"P","a","u","s","e","d">>],
      [name  |-> <<"E","R","R","O","R">>,
       value |-> <<"E","r","r","o","r">>],
      [name  |-> <<"Q","U","E","U","E","D">>,
       value |-> <<"Q","u","e","u","e","d">>],
      [name  |-> <<"M","O","V","I","N","G">>,
       value |-> <<"M","o","v","i","n","g">>]>>

NoLookup == [kind |-> "none", member |-> 0, exc |-> "", value |-> <<>>]
Member(k) == [kind |-> "member", member |-> k, exc |-> "", value |-> <<>>]
\* f"No {cls.__name__} member with value '{value}'"
NoMemberError(value) ==
    [kind |-> "raise", member |-> 0, exc |-> "ValueError", value |-> value]
\* 'NoneType' / 'int' object has no attribute 'lower'
NoLowerError == [kind |-> "raise", member |-> 0, exc |-> "AttributeError",
                 value |-> <<>>]

\* TorrentState._missing_(value)
_missing_(v) ==
    IF v.t # "str" THEN NoLowerError
    ELSE LET value == lower(v.s)
             hits == {k \in 1..Len(Members) : lower(Members[k].name) = value}
         IN IF hits # {}
            THEN Member(CHOOSE k \in hits : \A h \in hits : k <= h)
            ELSE NoMemberError(value)

\* TorrentState(value): Enum looks the value up among the members' values and
\* calls _missing_ for a value that is none of them
TorrentState(v) ==
    IF \E k \in 1..Len(Members) : v = JStr(Members[k].value)
    THEN Member(CHOOSE k \in 1..Len(Members) : v = JStr(Members[k].value))
    ELSE _missing_(v)

\* str(member)
__str__(k) == Members[k].value

\* every spelling of s in upper and lower case letters
Spellings(s) ==
    {[i \in 1..Len(s) |-> IF c[i] THEN lower(<<s[i]>>)[1] ELSE s[i]] :
        c \in [1..Len(s) -> BOOLEAN]}

InvalidState == <<"i","n","v","a","l","i","d","_","s","t","a","t","e">>

\* the values looked up: every spelling of every member's name, and values
\* that are no member's
StateValues ==
    {JStr(s) : s \in UNION {Spellings(Members[k].name) : k \in 1..Len(Members)}}
        \cup {JStr(s) : s \in Spellings(InvalidState)}
        \cup {JStr(<<>>), JStr(<<"P","a","u","s","e">>),
              JStr(<<"P","a","u","s","e","d"," ">>), JNull, JInt(0)}

(***************************************************************************)
(* Two clients in one process.  ID = 0 is an attribute of the class;       *)
(* self.ID reads the instance's own attribute ID if it has one and the     *)
(* class attribute otherwise, and self.ID += 1 stores the sum as an        *)
(* attribute of the instance: the class attribute is never written.        *)
(***************************************************************************)
\* DelugeWebClient.ID
ClassID == 0

\* a client just constructed: __init__ sets no attribute ID
NewInstance == [ID |-> JNull, ids |-> <<>>, outcome |-> NoOutcome]

\* a mutant: self.ID is one counter for both clients
instance_ID_shared(inst) == ID

\* self.ID, read through the instance `inst`
instance_ID(inst) == IF inst.ID = JNull THEN ClassID ELSE inst.ID.n

(***************************************************************************)
(* Threads calling one client.  Nothing in the client locks: a thread can  *)
(* be preempted between any two of: reading self.ID into the payload,      *)
(* session.post, reading self.ID for `self.ID += 1`, and storing the sum.  *)
(***************************************************************************)
Threads == {1, 2}

\* a thread outside any call: the payload id, the reply, the value read and
\* the value stored by its last `self.ID += 1`, its calls so far, its result
NoThread == [pc |-> "idle", id |-> 0, http |-> HttpFail(0, ""), loaded |-> 0,
             wrote |-> 0, calls |-> 0, outcome |-> NoOutcome]

\* a mutant: the sum is formed from the value ID has when it is stored
augmented_assign_atomic(loaded, current) == IncrementID(current)

\* self.ID += 1: the value stored, from the value read before (`loaded`);
\* `current` is what ID holds at the time of the store
augmented_assign(loaded, current) == IncrementID(loaded)

InitAside ==
    /\ state_value = JNull
    /\ state_found = NoLookup
    /\ other = NewInstance
    /\ threads = [t \in Threads |-> NoThread]
    /\ linked = FALSE
    /\ drops = 0

\* DelugeWebClient(): url defaults to "", and self.url is built from it
InitUrl ==
    /\ url_in = DefaultUrl
    /\ url = _build_url(DefaultUrl)

Init ==
    /\ InitClient
    /\ InitUrl
    /\ batch = NoBatch
    /\ exc_str = JNull
    /\ norm_out = <<>>
    /\ InitAside

Next ==
    \/ \E m \in SimpleMethods, h \in BOOLEAN : Call(m, h)
    \/ CallRoundTrip
    \/ \E t \in Timeouts : Login(t)
    \/ LoginAttempt
    \/ LoginIsConnected
    \/ LoginGetHosts
    \/ LoginConnect
    \/ LoginRecheck
    \/ AddLabel(<<"T","v">>)
    \/ AddLabelRoundTrip
    \/ SetLabel(Hash, <<"T","v">>)
    \/ SetLabelRoundTrip
    \/ \E m \in IngestMethods, l \in Labels : Upload(m, l, FALSE)
    \/ \E l \in Labels : Upload("core.add_torrent_file", l, TRUE)
    \/ UploadIngest
    \/ UploadAddLabel
    \/ UploadSetLabel
    \/ UploadResume

Spec == Init /\ [][Next]_vars

\* the client used through `with client:` only, the body calling
\* check_connected / get_hosts
NextWith ==
    \/ WithEnter
    \/ LoginAttempt
    \/ LoginIsConnected
    \/ LoginGetHosts
    \/ LoginConnect
    \/ LoginRecheck
    \/ WithEntered
    \/ \E m \in SimpleMethods : BodyCall(m)
    \/ CallRoundTrip
    \/ \E how \in BodyEnds : WithLeave(how)

SpecWith == Init /\ [][NextWith]_vars

\* the client asked again and again whether the listen port is open
NextPort ==
    \/ \E t \in Timeouts : TestListenPort(t)
    \/ TestListenPortRoundTrip

SpecPort == Init /\ [][NextPort]_vars

\* the url handed to the constructor is any string of at most MaxUrlLen
\* characters over UrlAlphabet; self.url is not set yet
UrlAlphabet == {"j", "s", "o", "n", "/"}
Urls == UNION {[1..k -> UrlAlphabet] : k \in 0..MaxUrlLen}
Unset == <<>>

InitConstruct ==
    /\ InitClient
    /\ url_in \in Urls
    /\ url = Unset
    /\ batch = NoBatch
    /\ exc_str = JNull
    /\ norm_out = <<>>
    /\ InitAside

\* __init__: self.url = self._build_url(url)
Construct ==
    /\ url = Unset
    /\ url' = _build_url(url_in)
    /\ UNCHANGED <<ID, ids, sent, recv, op, pc, args, outcome, scopeVars,
                   batchVars, url_in, normVars, asideVars>>

NextConstruct == Construct

SpecConstruct == InitConstruct /\ [][NextConstruct]_vars

\* the client used for batches of uploads
NextBatch ==
    \/ \E l \in BatchLabels, r \in BOOLEAN : UploadTorrents(l, r)
    \/ UploadIngest
    \/ UploadAddLabel
    \/ UploadSetLabel
    \/ UploadResume
    \/ \E r \in BOOLEAN : UploadTorrentsCollect(r)

\* the list of torrent files handed to upload_torrents is any of Batches
InitBatch ==
    /\ InitClient
    /\ InitUrl
    /\ batch \in {[NoBatch EXCEPT !.torrents = b] : b \in Batches}
    /\ exc_str = JNull
    /\ norm_out = <<>>
    /\ InitAside

SpecBatch == InitBatch /\ [][NextBatch]_vars

(***************************************************************************)
(* _normalize_exception on its own: the value handed in is any string of   *)
(* at most MaxStrLen characters over Alphabet, a mapping, or None; the     *)
(* function is applied to it, and then to its own result.                  *)
(***************************************************************************)
Alphabet == {"f", "o", "]", " "}
Strings(n) == UNION {[1..k -> Alphabet] : k \in 0..n}
NormInputs == {JNull, JDict(<<"o","]">>, 1)} \cup {JStr(x) : x \in Strings(MaxStrLen)}

InitNorm ==
    /\ InitClient
    /\ InitUrl
    /\ batch = NoBatch
    /\ exc_str \in NormInputs
    /\ norm_out = <<>>
    /\ InitAside

Normalize ==
    /\ Len(norm_out) < MaxApply
    /\ norm_out' = Append(norm_out,
                          _normalize_exception(IF norm_out = <<>> THEN exc_str
                                               ELSE norm_out[Len(norm_out)]))
    /\ UNCHANGED <<clientVars, exc_str, asideVars>>

NextNorm == Normalize

SpecNorm == InitNorm /\ [][NextNorm]_vars

\* the second client makes a call (check_connected, get_hosts, ...) while the
\* first one is between operations
OtherCall(method, handle_error) ==
    /\ pc = "idle"
    /\ LET payload == Payload(method, <<>>, instance_ID(other))
       IN \E http \in Replies(payload.id) :
              other' = [ID |-> JInt(IncrementID(instance_ID(other))),
                        ids |-> Append(other.ids, payload.id),
                        outcome |-> execute_call(payload, handle_error, http)]
    /\ UNCHANGED <<clientVars, normVars, lookupVars, threadVars, serverVars>>

\* calls of both clients so far
CallsMade == Len(ids) + Len(other.ids)

NextInstances ==
    \/ \E m \in SimpleMethods, h \in BOOLEAN : CallsMade < MaxCalls /\ Call(m, h)
    \/ CallRoundTrip
    \/ \E m \in SimpleMethods, h \in BOOLEAN : CallsMade < MaxCalls /\ OtherCall(m, h)

SpecInstances == Init /\ [][NextInstances]_vars

\* thread t enters check_connected: payload = {..., "id": self.ID}
ThreadBuild(t) ==
    /\ pc = "idle"
    /\ threads[t].pc = "idle"
    /\ threads[t].calls < MaxThreadCalls
    /\ threads' = [threads EXCEPT ![t] =
                      [@ EXCEPT !.pc = "post", !.id = ID, !.outcome = NoOutcome]]
    /\ UNCHANGED <<clientVars, normVars, lookupVars, instanceVars, serverVars>>

\* session.post(...) of thread t: the request goes out, the reply comes in
ThreadPost(t) ==
    /\ threads[t].pc = "post"
    /\ ids' = Append(ids, threads[t].id)
    /\ \E http \in Replies(threads[t].id) :
           threads' = [threads EXCEPT ![t] = [@ EXCEPT !.pc = "load", !.http = http]]
    /\ UNCHANGED <<ID, sent, recv, op, pc, args, outcome, scopeVars, batchVars,
                   urlVars, normVars, lookupVars, instanceVars, serverVars>>

\* self.ID += 1, first half: thread t reads self.ID
ThreadLoad(t) ==
    /\ threads[t].pc = "load"
    /\ threads' = [threads EXCEPT ![t] = [@ EXCEPT !.pc = "store", !.loaded = ID]]
    /\ UNCHANGED <<clientVars, normVars, lookupVars, instanceVars, serverVars>>

\* self.ID += 1, second half: thread t stores the sum; then the rest of
\* execute_call, which touches nothing shared
ThreadStore(t) ==
    /\ threads[t].pc = "store"
    /\ ID' = augmented_assign(threads[t].loaded, ID)
    /\ threads' = [threads EXCEPT ![t] =
                      [@ EXCEPT !.pc = "idle", !.wrote = ID',
                                !.calls = @ + 1,
                                !.outcome = execute_call(
                                    Payload("web.connected", <<>>, threads[t].id),
                                    TRUE, threads[t].http)]]
    /\ UNCHANGED <<ids, sent, recv, op, pc, args, outcome, scopeVars, batchVars,
                   urlVars, normVars, lookupVars, instanceVars, serverVars>>

NextThreads ==
    \/ \E t \in Threads : ThreadBuild(t)
    \/ \E t \in Threads : ThreadPost(t)
    \/ \E t \in Threads : ThreadLoad(t)
    \/ \E t \in Threads : ThreadStore(t)

SpecThreads == Init /\ [][NextThreads]_vars

(***************************************************************************)
(* Logins one after the other against a server that keeps its state: it    *)
(* accepts the password, knows two hosts, and answers web.connected and    *)
(* web.connect by whether its web UI is linked to a daemon.  The link      *)
(* comes up at some time (on web.connect, or for another web client) and   *)
(* can be lost again (the daemon stops).                                   *)
(***************************************************************************)
ServerReply(method, id) ==
    CASE method = "auth.login" -> HttpOk(JBool(TRUE), JNull, JInt(id))
      [] method = "web.get_hosts" ->
             HttpOk(JList(<<JList(<<JStr(Host1)>>), JList(<<JStr(Host2)>>)>>),
                    JNull, JInt(id))
      [] OTHER -> HttpOk(JBool(linked), JNull, JInt(id))

\* the round trip just made was answered by the server
Served == recv'[Len(recv')] = ServerReply(sent'[Len(sent')].method,
                                          sent'[Len(sent')].id)

\* the last operation was a login that returned success
LoggedIn ==
    /\ op = "login"
    /\ pc = "idle"
    /\ outcome.kind = "return"
    /\ Truthy(outcome.resp.result)

LoginAgain(timeout) ==
    /\ Len(ids) + 5 <= MaxLoginCalls
    /\ Invoke("login", "login_attempt",
              [NoArgs EXCEPT !.timeout = timeout, !.again = LoggedIn /\ linked,
                             !.drops = drops])

DaemonLinked ==
    /\ ~linked
    /\ linked' = TRUE
    /\ UNCHANGED <<clientVars, normVars, lookupVars, instanceVars, threadVars,
                   drops>>

DaemonLost ==
    /\ linked
    /\ drops < MaxDrops
    /\ linked' = FALSE
    /\ drops' = drops + 1
    /\ UNCHANGED <<clientVars, normVars, lookupVars, instanceVars, threadVars>>

NextServer ==
    \/ \E t \in Timeouts : LoginAgain(t)
    \/ LoginAttempt /\ Served
    \/ LoginIsConnected /\ Served
    \/ LoginGetHosts /\ Served
    \/ LoginConnect /\ Served
    \/ LoginRecheck /\ Served
    \/ DaemonLinked
    \/ DaemonLost

SpecServer == Init /\ [][NextServer]_vars

\* TorrentState(value) for each of the values
InitLookup ==
    /\ InitClient
    /\ InitUrl
    /\ batch = NoBatch
    /\ exc_str = JNull
    /\ norm_out = <<>>
    /\ state_value \in StateValues
    /\ state_found = NoLookup
    /\ other = NewInstance
    /\ threads = [t \in Threads |-> NoThread]
    /\ linked = FALSE
    /\ drops = 0

Lookup ==
    /\ state_found = NoLookup
    /\ state_found' = TorrentState(state_value)
    /\ UNCHANGED <<clientVars, normVars, state_value, instanceVars, threadVars,
                   serverVars>>

NextLookup == Lookup

SpecLookup == InitLookup /\ [][NextLookup]_vars

(***************************************************************************)
(* Properties of the call engine.                                          *)
(***************************************************************************)
\* the reply to request i of the operation came back through execute_call as a
\* returned Response: status ok and, handle_error being set, no error to raise
Returned(i) ==
    /\ i <= Len(recv)
    /\ recv[i].ok
    /\ ~Truthy(_normalize_exception(recv[i].json.error))

Methods(requests) == [i \in 1..Len(requests) |-> requests[i].method]

\* C1: after any sequence of N calls that each received an HTTP response (ok,
\* non-ok, or ok with an error that is raised) the ID counter equals its
\* initial value (0) plus N: each call adds exactly one, nothing resets it.
C1_IDAdvancesOncePerCall == ID = Len(ids)

\* a sequence of calls in which two returned and the third raised on a
\* non-success status
C1_Witness ==
    /\ op = "login" /\ pc = "idle" /\ Len(recv) = 3 /\ ~recv[3].ok
    /\ outcome.kind = "raise" /\ ID = Len(ids) /\ Len(ids) > 3

C3_NonSuccessStatusRaises ==
    \A i \in 1..Len(recv) :
        (~recv[i].ok /\ sent[i].method \notin IngestMethods) =>
            /\ i = Len(recv)
            /\ pc = "idle"
            /\ outcome = Raise(ExecuteFailed(recv[i].status_code, recv[i].reason))

\* add_label (handle_error=False) met a 404
C3_Witness ==
    /\ op = "add_label" /\ pc = "idle" /\ Len(recv) = 1
    /\ ~recv[1].ok /\ recv[1].status_code = 404
    /\ outcome.kind = "raise" /\ outcome.exc.reason = "Not Found"

\* C4: for a call answered with an ok status, execute_call with
\* handle_error=True raises DelugeWebClientError embedding the payload and the
\* normalized error exactly when the normalized error is non-empty and
\* otherwise returns the Response; with handle_error=False it never raises
\* and returns the Response with the normalized error in place.
C4_ErrorRaisedIffHandled ==
    (op = "execute_call" /\ pc = "idle" /\ recv[1].ok) =>
        LET error == _normalize_exception(recv[1].json.error)
            data == Response(recv[1].json.result, error, recv[1].json.id)
            payload == Payload(sent[1].method, sent[1].params, sent[1].id)
        IN IF args.handle_error /\ error # JNull /\ error # JStr(<<>>)
           THEN outcome = Raise(PayloadError(payload, error))
           ELSE outcome = Return(data)

\* handle_error=False: a populated error came back in the returned Response
C4_Witness ==
    /\ op = "execute_call" /\ pc = "idle" /\ ~args.handle_error
    /\ recv[1].ok /\ recv[1].json.error = JStr(<<"e","r","r","]">>)
    /\ outcome.kind = "return" /\ outcome.resp.error = JStr(<<"e","r","r">>)

(***************************************************************************)
(* Properties of _normalize_exception (checked under SpecNorm).            *)
(***************************************************************************)
AllIn(x, chars) == \A i \in 1..Len(x) : x[i] \in chars

\* x without its trailing whitespace
TrimmedRight(x) == rstrip_chars(x, Whitespace)

\* o is x without its leading and trailing whitespace
IsTrimOf(o, x) ==
    \E i, j \in 0..Len(x) :
        /\ i <= j
        /\ o = SubSeq(x, i + 1, j)
        /\ AllIn(SubSeq(x, 1, i), Whitespace)
        /\ AllIn(SubSeq(x, j + 1, Len(x)), Whitespace)
        /\ o # <<>> => (o[1] \notin Whitespace /\ o[Len(o)] \notin Whitespace)

\* o is x with its last k characters, all of them "]", removed and then trimmed
IsTrimAfterDropping(o, x, k) ==
    /\ k <= Len(x)
    /\ AllIn(SubSeq(x, Len(x) - k + 1, Len(x)), {"]"})
    /\ IsTrimOf(o, SubSeq(x, 1, Len(x) - k))

EndsWith(x, c) == x # <<>> /\ x[Len(x)] = c

\* C5 as stated: a string loses exactly one trailing "]" if it ends with one
\* (none otherwise) and is then trimmed; a mapping or None passes unchanged.
C5_ExactlyOneBracket ==
    norm_out # <<>> =>
        IF exc_str.t = "str"
        THEN /\ norm_out[1].t = "str"
             /\ IsTrimAfterDropping(norm_out[1].s, exc_str.s,
                                    IF EndsWith(exc_str.s, "]") THEN 1 ELSE 0)
        ELSE norm_out[1] = exc_str

\* C5, amended: a string loses every trailing "]" (the whole run of brackets
\* it ends with, so that what is left does not end with one) and is then
\* trimmed; a mapping or None passes unchanged.
C5_AllTrailingBrackets ==
    norm_out # <<>> =>
        IF exc_str.t = "str"
        THEN /\ norm_out[1].t = "str"
             /\ \E k \in 0..Len(exc_str.s) :
                    /\ IsTrimAfterDropping(norm_out[1].s, exc_str.s, k)
                    /\ ~EndsWith(SubSeq(exc_str.s, 1, Len(exc_str.s) - k), "]")
        ELSE norm_out[1] = exc_str

\* a string ending with several brackets has been normalized
C5_Witness ==
    /\ exc_str = JStr(<<"f","o","]","]","]">>)
    /\ norm_out # <<>> /\ norm_out[1] = JStr(<<"f","o">>)

\* C6 as stated: "foo]" becomes "foo", and "foo]  " becomes "foo" too.
C6_BracketRemovedBeforeWhitespace ==
    norm_out # <<>> =>
        /\ exc_str = JStr(<<"f","o","o","]">>) => norm_out[1] = JStr(<<"f","o","o">>)
        /\ exc_str = JStr(<<"f","o","o","]"," "," ">>)
               => norm_out[1] = JStr(<<"f","o","o">>)

\* C6, amended: "foo]" becomes "foo", but "foo]  " becomes "foo]": a bracket
\* that is followed by whitespace is not at the end of the string and is kept.
C6_BracketKeptBeforeWhitespace ==
    norm_out # <<>> =>
        /\ exc_str = JStr(<<"f","o","o","]">>) => norm_out[1] = JStr(<<"f","o","o">>)
        /\ exc_str = JStr(<<"f","o","o","]"," "," ">>)
               => norm_out[1] = JStr(<<"f","o","o","]">>)
        /\ (exc_str.t = "str" /\ EndsWith(exc_str.s, " ")
                /\ EndsWith(TrimmedRight(exc_str.s), "]"))
               => EndsWith(norm_out[1].s, "]")

\* "foo]  " has been normalized
C6_Witness ==
    /\ exc_str = JStr(<<"f","o","o","]"," "," ">>)
    /\ norm_out # <<>>

\* C7 as stated: on every string whose last character is not "]",
\* normalizing twice gives what normalizing once gives.
C7_IdempotentUnlessLastIsBracket ==
    (Len(norm_out) >= 2 /\ exc_str.t = "str" /\ ~EndsWith(exc_str.s, "]"))
        => norm_out[2] = norm_out[1]

\* C7, amended: on every string whose last non-whitespace character is not
\* "]", normalizing twice gives what normalizing once gives.
C7_IdempotentUnlessLastVisibleIsBracket ==
    (Len(norm_out) >= 2 /\ exc_str.t = "str"
        /\ ~EndsWith(TrimmedRight(exc_str.s), "]"))
        => norm_out[2] = norm_out[1]

\* a string with brackets inside and whitespace around has been normalized twice
C7_Witness ==
    /\ exc_str = JStr(<<" ","]","f","]","o"," ">>)
    /\ Len(norm_out) >= 2 /\ norm_out[2] = JStr(<<"]","f","]","o">>)

(***************************************************************************)
(* Properties of login.                                                    *)
(***************************************************************************)
\* C8: if auth.login is answered with a falsy result, login returns
\* Response(result=False, error="Login failed") and auth.login is the only
\* request it transmitted.
C8_LoginFailedStopsAtOnce ==
    (op = "login" /\ Returned(1) /\ ~Truthy(recv[1].json.result)) =>
        /\ pc = "idle"
        /\ outcome.kind = "return"
        /\ outcome.resp.result = JBool(FALSE)
        /\ outcome.resp.error = JStr(LoginFailed)
        /\ Methods(sent) = <<"auth.login">>

\* auth.login answered null: login has returned the failure
C8_Witness ==
    /\ op = "login" /\ pc = "idle" /\ Returned(1)
    /\ recv[1].json.result = JNull
    /\ outcome.kind = "return" /\ outcome.resp.error = JStr(LoginFailed)

\* C9: if auth.login succeeds and the first web.connected is answered truthy,
\* login returns result True, error None, having transmitted auth.login and
\* one web.connected and nothing else.
C9_AlreadyConnectedShortCut ==
    (op = "login" /\ Returned(1) /\ Truthy(recv[1].json.result)
        /\ Returned(2) /\ Truthy(recv[2].json.result)) =>
        /\ pc = "idle"
        /\ outcome.kind = "return"
        /\ outcome.resp.result = JBool(TRUE)
        /\ outcome.resp.error = JNull
        /\ Methods(sent) = <<"auth.login", "web.connected">>

\* login returned through the short cut
C9_Witness ==
    /\ op = "login" /\ pc = "idle" /\ Len(recv) = 2
    /\ Returned(2) /\ Truthy(recv[2].json.result)
    /\ outcome.kind = "return" /\ outcome.resp.result = JBool(TRUE)

\* the replies that take login through a host connection, one per round trip
HostPathReply(i) ==
    /\ Returned(i)
    /\ CASE i = 1 -> Truthy(recv[1].json.result)
         [] i = 2 -> ~Truthy(recv[2].json.result)
         [] i = 3 -> /\ IsNonEmptyList(recv[3].json.result)
                     /\ IsNonEmptyList(recv[3].json.result.l[1])
         [] i = 4 -> Truthy(recv[4].json.result)
         [] i = 5 -> Truthy(recv[5].json.result)
         [] OTHER -> FALSE

HostPathOrder ==
    <<"auth.login", "web.connected", "web.get_hosts", "web.connect", "web.connected">>

HostPathPc ==
    <<"login_is_connected", "login_get_hosts", "login_connect", "login_recheck", "idle">>

\* C10: if auth.login succeeds, the first web.connected is false, web.get_hosts
\* returns a non-empty list whose first entry is a non-empty list, and the
\* connect and the re-check succeed, login goes through auth.login,
\* web.connected, web.get_hosts, web.connect, web.connected in this order and
\* returns success; web.connect is sent once, with the first element of the
\* first host entry, and no other host is tried.
C10_ConnectsToFirstHostOnce ==
    \A k \in 1..5 :
        (op = "login" /\ \A i \in 1..k : HostPathReply(i)) =>
            /\ Len(sent) >= k
            /\ \A i \in 1..Len(sent) : i <= 5 /\ sent[i].method = HostPathOrder[i]
            /\ Len(sent) = k => pc = HostPathPc[k]
            /\ Len(sent) >= 4 => sent[4].params = <<recv[3].json.result.l[1].l[1]>>
            /\ k = 5 => /\ pc = "idle"
                        /\ outcome.kind = "return"
                        /\ Truthy(outcome.resp.result)
                        /\ Cardinality({i \in 1..Len(sent) :
                                            sent[i].method = "web.connect"}) = 1

\* login connected to the first of two known hosts
C10_Witness ==
    /\ op = "login" /\ pc = "idle" /\ \A i \in 1..5 : HostPathReply(i)
    /\ Len(recv[3].json.result.l) = 2
    /\ sent[4].params = <<JStr(Host1)>>
    /\ outcome.kind = "return" /\ outcome.resp.result = JBool(TRUE)

(***************************************************************************)
(* Properties of login: how the handshake is reported.                     *)
(***************************************************************************)
\* the positions of the web.connected requests of the operation
ConnectedChecks == {i \in 1..Len(sent) : sent[i].method = "web.connected"}

LoginEnded == op = "login" /\ pc = "idle"

\* C11: login returns a Response with a truthy result only if the most recent
\* web.connected reply received during that login was truthy; it never reports
\* success on the auth.login or web.connect reply alone.
C11_SuccessOnlyAfterConnectedCheck ==
    (LoginEnded /\ outcome.kind = "return" /\ Truthy(outcome.resp.result)) =>
        /\ ConnectedChecks # {}
        /\ \E last \in ConnectedChecks :
               /\ \A i \in ConnectedChecks : i <= last
               /\ last = Len(sent)
               /\ Returned(last)
               /\ Truthy(recv[last].json.result)

\* login reported success on the re-check that followed web.connect
C11_Witness ==
    /\ LoginEnded /\ Len(recv) = 5 /\ ConnectedChecks = {2, 5}
    /\ ~Truthy(recv[2].json.result)
    /\ recv[5].json.result = JStr(Hash)
    /\ outcome.kind = "return" /\ Truthy(outcome.resp.result)

\* auth.login succeeded, the first check said not connected and a host was found
ReachedConnect ==
    /\ op = "login" /\ Len(recv) >= 4
    /\ \A i \in 1..3 : HostPathReply(i)

\* web.connect answered with a falsy result
ConnectRefused == ReachedConnect /\ Len(recv) = 4 /\ Returned(4)
                      /\ ~Truthy(recv[4].json.result)

\* web.connect answered with a truthy result and the re-check with a falsy one
RecheckFalsy == ReachedConnect /\ HostPathReply(4) /\ Len(recv) = 5 /\ Returned(5)
                    /\ ~Truthy(recv[5].json.result)

\* C12: whenever auth.login succeeded but the handshake does not end
\* connected, login returns the failure Response with result False and error
\* "Failed to connect to host", both when web.connect returns a falsy result
\* and when web.connect returns a truthy result but the re-check is falsy.
C12_HandshakeFailureIsFailedToConnect ==
    (ConnectRefused \/ RecheckFalsy) =>
        /\ pc = "idle"
        /\ outcome = Return(_create_failure_response(FailedToConnect))

\* the host list of reply 3 gives no host to connect to
NoHostToConnect ==
    /\ op = "login" /\ Len(recv) >= 3
    /\ HostPathReply(1) /\ HostPathReply(2) /\ Returned(3)
    /\ ~(IsNonEmptyList(recv[3].json.result)
           /\ IsNonEmptyList(recv[3].json.result.l[1]))

\* C13: if auth.login succeeds, the session is not yet connected and the
\* web.get_hosts result is empty or malformed (not a non-empty list, or its
\* first element not a non-empty list), login returns Response(result=False,
\* error="Failed to connect to host") and transmits no web.connect.
C13_NoHostNoConnect ==
    NoHostToConnect =>
        /\ pc = "idle"
        /\ Len(sent) = 3
        /\ outcome = Return(_create_failure_response(FailedToConnect))
        /\ \A i \in 1..Len(sent) : sent[i].method # "web.connect"

\* the host list was a list whose first entry is a host id, not a list
C13_Witness ==
    /\ NoHostToConnect /\ pc = "idle"
    /\ recv[3].json.result = JList(<<JStr(Host1)>>)
    /\ outcome.resp.error = JStr(FailedToConnect)

\* the last reply received was returned by execute_call and its result is one
\* of the falsy answers that end the handshake
FalsyEnd ==
    /\ op = "login" /\ Len(recv) >= 1
    /\ \A i \in 1..Len(recv) : Returned(i)
    /\ \/ Len(recv) = 1 /\ ~Truthy(recv[1].json.result)
       \/ NoHostToConnect
       \/ ConnectRefused
       \/ RecheckFalsy

\* C14: a failed handshake is a value, not an exception: login raises only when
\* one of its requests meets a transport failure (non-success status) or a
\* protocol error (populated error); a falsy auth.login result, an empty or
\* malformed host list, a falsy web.connect result or a falsy connectivity
\* check never make it raise and always yield a returned Response whose result
\* is falsy.
C14_FailedHandshakeIsAValue ==
    /\ (LoginEnded /\ outcome.kind = "raise") =>
           /\ ~Returned(Len(recv))
           /\ \A i \in 1..(Len(recv) - 1) : Returned(i)
    /\ (op = "login" /\ Len(recv) >= 1 /\ \A i \in 1..Len(recv) : Returned(i)) =>
           outcome.kind # "raise"
    /\ FalsyEnd =>
           /\ pc = "idle"
           /\ outcome.kind = "return"
           /\ ~Truthy(outcome.resp.result)

\* the re-check after a successful web.connect said not connected, and login
\* returned
C14_Witness ==
    /\ FalsyEnd /\ RecheckFalsy /\ pc = "idle"
    /\ outcome.kind = "return" /\ ~Truthy(outcome.resp.result)

(***************************************************************************)
(* Properties of the scoped pattern.                                       *)
(***************************************************************************)
\* C15: for every execution of `with client:` -- the login on entry returns,
\* the login on entry raises, the body completes, the body raises --
\* close_session has been invoked by the time control leaves the with
\* statement: outside the statement, as many closes as statements begun.
C15_ClosedOnEveryExit == scope = "out" => closes = entered

\* C16: whenever the body of `with client:` has been entered and is then left,
\* normally or through an exception, close_session is called exactly once (as
\* many closes as bodies left), and an exception raised in the body is not
\* suppressed: the caller gets it after the close.
C16_BodyLeftClosesOnce ==
    /\ scope = "out" => closes = bodies
    /\ (scope = "out" /\ left.body # NoExc) => left.out = left.body
    /\ scope = "body" => closes = bodies - 1

\* a body was left through the exception of a call it made, after an earlier
\* with statement had run
C16_Witness ==
    /\ scope = "out" /\ bodies = 2 /\ closes = 2
    /\ op = "execute_call" /\ outcome.kind = "raise"
    /\ left.body = outcome.exc /\ left.out = outcome.exc

(***************************************************************************)
(* Properties of the upload sequence.                                      *)
(***************************************************************************)
UploadEnded == op = "upload" /\ pc = "idle"

\* str(result["result"]) of the ingestion reply
IngestedHash == PyStr(recv[1].json.result)

\* C17: an upload that succeeds has transmitted exactly the ingestion call,
\* then label.add and label.set_torrent (both, and only if a non-empty label was
\* given), then core.resume_torrent for the returned info hash; it returns a
\* Response whose result is that info hash, and ID has advanced by the number
\* of requests: 4 with a label, 2 without.
C17_UploadSequence ==
    (UploadEnded /\ outcome.kind = "return") =>
        /\ args.method \in IngestMethods
        /\ Methods(sent) =
               IF args.label.t = "str" /\ args.label.s # <<>>
               THEN <<args.method, "label.add", "label.set_torrent",
                      "core.resume_torrent">>
               ELSE <<args.method, "core.resume_torrent">>
        /\ sent[Len(sent)].params = <<JStr(IngestedHash)>>
        /\ Len(sent) = 4 => sent[3].params[1] = JStr(IngestedHash)
        /\ outcome.resp.result = JStr(IngestedHash)
        /\ outcome.resp.error = JNull
        /\ ID = sent[1].id + Len(sent)

\* an upload with label "Tv" returned the info hash after its four requests
C17_Witness ==
    /\ UploadEnded /\ outcome.kind = "return" /\ args.label = JStr(<<"T","v">>)
    /\ recv[1].json.result = JStr(Hash) /\ outcome.resp.result = JStr(Hash)
    /\ Len(sent) = 4 /\ sent[1].id > 0 /\ ID = sent[1].id + 4

\* C18: if the ingestion request receives a non-success status the upload
\* raises DelugeWebClientError with status and reason, and nothing else has
\* been done: no label.add, label.set_torrent or core.resume_torrent is
\* transmitted and ID has advanced by exactly one.
C18_IngestionStatusFailure ==
    (op = "upload" /\ Len(recv) >= 1 /\ ~recv[1].ok) =>
        /\ pc = "idle"
        /\ outcome = Raise(UploadFailed(recv[1].status_code, recv[1].reason))
        /\ Len(sent) = 1
        /\ ID = sent[1].id + 1

\* a labelled upload met a 500 on its ingestion request
C18_Witness ==
    /\ UploadEnded /\ Truthy(args.label) /\ Len(recv) = 1
    /\ recv[1] = HttpFail(500, "Internal Server Error")
    /\ outcome.kind = "raise" /\ outcome.exc.status_code = 500

\* C19: if the ingestion reply has an ok status but carries a non-empty error
\* (and so no info hash), the upload raises, sends no label.add,
\* label.set_torrent or core.resume_torrent, and returns no success Response.
C19_IngestionErrorRaises ==
    (op = "upload" /\ Len(recv) >= 1 /\ recv[1].ok
        /\ Truthy(_normalize_exception(recv[1].json.error))) =>
        /\ pc = "idle"
        /\ outcome.kind = "raise"
        /\ Len(sent) = 1

\* the reply to request i (i > 1) of an upload makes that step fail: label.add
\* with a status, or an error other than the already-exists one; the others
\* with a status or a populated error
StepFailed(i) ==
    IF sent[i].method = "label.add"
    THEN \/ ~recv[i].ok
         \/ LET e == _normalize_exception(recv[i].json.error)
            IN e # JNull /\ ~(e.t = "dict" /\ Contains(LabelExists, e.s))
    ELSE ~Returned(i)

RemoveMethods == {"core.remove_torrent", "core.remove_torrents"}

\* C20: after a successful ingestion, if label.add fails with an error that is
\* not the benign one or label.set_torrent fails, the upload raises,
\* core.resume_torrent is never issued and no compensating core.remove_torrent
\* / core.remove_torrents is issued; if core.resume_torrent fails the
\* exception goes to the caller likewise, with no rollback request.
C20_NoRollback ==
    (op = "upload" /\ Len(recv) >= 2 /\ recv[1].ok) =>
        /\ \A i \in 2..Len(recv) :
               StepFailed(i) =>
                   /\ i = Len(sent)
                   /\ pc = "idle"
                   /\ outcome.kind = "raise"
                   /\ sent[i].method # "core.resume_torrent" =>
                          \A j \in 1..Len(sent) :
                              sent[j].method # "core.resume_torrent"
        /\ \A i \in 1..Len(sent) : sent[i].method \notin RemoveMethods

\* label.set_torrent was answered with an error after label.add went through
C20_Witness ==
    /\ UploadEnded /\ Len(recv) = 3 /\ recv[1].ok /\ ~StepFailed(2)
    /\ sent[3].method = "label.set_torrent" /\ recv[3].ok /\ StepFailed(3)
    /\ outcome.kind = "raise"

(***************************************************************************)
(* Properties of label creation.                                           *)
(***************************************************************************)
\* the already-exists condition, as the server signals it: the message of the
\* (normalized) error, a mapping's "message" or the plain string, contains
\* "Label already exists"
AlreadyExists(e) == e.t \in {"dict", "str"} /\ Contains(LabelExists, e.s)

\* the error of reply i as execute_call hands it on
ErrorOf(i) == _normalize_exception(recv[i].json.error)

\* an upload with a label got an ok reply to its label.add
LabelAddAnswered ==
    /\ op = "upload" /\ Len(recv) >= 2 /\ recv[1].ok
    /\ sent[2].method = "label.add" /\ recv[2].ok

\* C21: during an upload with a label, a label.add reply that signals the
\* already-exists condition is swallowed: label.set_torrent and then
\* core.resume_torrent are still issued, and the upload returns the info hash
\* (if these two calls go through); any other non-empty label.add error aborts
\* the upload before label.set_torrent is issued.
C21_AlreadyExistsSwallowedInUpload ==
    LabelAddAnswered =>
        /\ AlreadyExists(ErrorOf(2)) =>
               /\ Len(sent) = 2 => pc = "upload_set_label"
               /\ Len(sent) >= 3 => sent[3].method = "label.set_torrent"
               /\ (Len(sent) = 3 /\ Returned(3)) => pc = "upload_resume"
               /\ (Len(sent) = 4 /\ Returned(3) /\ Returned(4)) =>
                      /\ sent[4].method = "core.resume_torrent"
                      /\ pc = "idle"
                      /\ outcome.kind = "return"
                      /\ outcome.resp.result = JStr(IngestedHash)
        /\ (Truthy(ErrorOf(2)) /\ ~AlreadyExists(ErrorOf(2))) =>
               /\ Len(sent) = 2
               /\ pc = "idle"
               /\ outcome.kind = "raise"

\* C22: if the server answers label.add with the plain error string
\* "Label already exists]", add_label returns normally and the returned Response
\* carries the normalized error "Label already exists".
C22_AlreadyExistsStringReturns ==
    (op = "add_label" /\ Len(recv) = 1 /\ recv[1].ok
        /\ recv[1].json.error = JStr(LabelExists \o <<"]">>)) =>
        /\ pc = "idle"
        /\ outcome.kind = "return"
        /\ outcome.resp.error = JStr(LabelExists)

\* C23: if the server answers label.add with an error mapping whose message
\* contains "Label already exists", add_label returns normally after exactly
\* one request and the returned Response carries that mapping unchanged.
C23_AlreadyExistsMappingReturns ==
    (op = "add_label" /\ Len(recv) >= 1 /\ recv[1].ok
        /\ recv[1].json.error.t = "dict"
        /\ Contains(LabelExists, recv[1].json.error.s)) =>
        /\ pc = "idle"
        /\ Len(sent) = 1
        /\ sent[1].method = "label.add"
        /\ outcome = Return(Response(recv[1].json.result, recv[1].json.error,
                                     recv[1].json.id))

\* add_label returned the Response with the already-exists mapping in it
C23_Witness ==
    /\ op = "add_label" /\ pc = "idle" /\ Len(sent) = 1
    /\ recv[1].ok /\ recv[1].json.error = JDict(LabelExists, 1)
    /\ outcome.kind = "return" /\ outcome.resp.error = JDict(LabelExists, 1)

\* C24: if the server answers label.add with an error unrelated to the
\* already-exists condition, a plain string or a mapping, add_label raises
\* DelugeWebClientError whose message embeds that normalized error.
C24_UnrelatedErrorRaises ==
    (op = "add_label" /\ Len(recv) >= 1 /\ recv[1].ok
        /\ ErrorOf(1) # JNull /\ ~AlreadyExists(ErrorOf(1))) =>
        /\ pc = "idle"
        /\ Len(sent) = 1
        /\ outcome = Raise(LabelError(ErrorOf(1)))

\* add_label raised on the string "err]", its message embedding "err"
C24_Witness ==
    /\ op = "add_label" /\ pc = "idle"
    /\ recv[1].ok /\ recv[1].json.error = JStr(<<"e","r","r","]">>)
    /\ outcome.kind = "raise" /\ outcome.exc.msg = "Error adding label"
    /\ outcome.exc.error = JStr(<<"e","r","r">>)

(***************************************************************************)
(* Properties of upload_torrents.                                          *)
(***************************************************************************)
\* the positions of the ingestion requests among the requests of the batch
Ingestions == {i \in 1..Len(sent) : sent[i].method = "core.add_torrent_file"}

\* the position of the j-th ingestion request
Ingestion(j) ==
    CHOOSE i \in Ingestions : Cardinality({h \in Ingestions : h <= i}) = j

\* the reply to request i makes the upload it belongs to raise
RequestFailed(i) ==
    IF i \in Ingestions THEN ~recv[i].ok ELSE StepFailed(i)

\* the source whose upload made the batch raise: the one after the sources
\* ingested if its file did not open, else the last one ingested
FailedSource ==
    IF batch.out.cause = FileNotFound
    THEN Cardinality(Ingestions) + 1
    ELSE Cardinality(Ingestions)

\* C25: upload_torrents takes its sources strictly in iteration order, one at a
\* time; when the upload of source k raises it raises at once
\* DelugeWebClientError naming the file name of source k; every source before k
\* has been uploaded exactly once and is not rolled back, no source after k is
\* attempted, and no partial result mapping is returned.
C25_BatchAbortsAtFirstFailure ==
    op = "upload_torrents" =>
        /\ Cardinality(Ingestions) <= Len(batch.torrents)
        /\ \A j \in 1..Cardinality(Ingestions) :
               sent[Ingestion(j)].params[1] = JStr(batch.torrents[j])
        /\ \A i \in 1..Len(sent) : sent[i].method \notin RemoveMethods
        /\ \A i \in 1..Len(recv) :
               RequestFailed(i) =>
                   /\ i = Len(sent)
                   /\ pc = "idle"
                   /\ outcome.kind = "raise"
                   /\ batch.out.kind # "return"
                   /\ batch.k \in {0, Cardinality(Ingestions)}
        /\ batch.out.kind = "raise" =>
               /\ pc = "idle"
               /\ FailedSource \in 1..Len(batch.torrents)
               /\ batch.out.name = PathName(batch.torrents[FailedSource])
               /\ batch.out.results = <<>>
               /\ batch.out.cause # FileNotFound =>
                      /\ RequestFailed(Len(sent))
                      /\ batch.out.cause = outcome.exc
               /\ batch.out.cause = FileNotFound =>
                      \A i \in 1..Len(recv) : ~RequestFailed(i)

\* of two sources the second failed on its resume: the batch raised naming
\* "y.t" after the first was ingested and resumed
C25_Witness ==
    /\ op = "upload_torrents" /\ batch.torrents = <<TorrentA, TorrentY>>
    /\ batch.out.kind = "raise" /\ batch.out.name = <<"y",".","t">>
    /\ Methods(sent) = <<"core.add_torrent_file", "core.resume_torrent",
                         "core.add_torrent_file", "core.resume_torrent">>
    /\ Returned(2) /\ ~Returned(4)

\* C26: when every upload of a batch succeeds, upload_torrents returns a
\* mapping holding a Response for each input torrent: as many entries as
\* source paths, for every list of paths, paths in different directories whose
\* file names share the stem included.
C26_OneResultPerSource ==
    (op = "upload_torrents" /\ batch.out.kind = "return") =>
        Len(batch.out.results) = Len(batch.torrents)

\* C27: a torrent uploaded with add_paused=True is paused on the server when
\* the upload returns: the client's own call sequence does not start (resume)
\* a torrent the caller asked to be added paused.
C27_AddPausedNotResumed ==
    (UploadEnded /\ outcome.kind = "return" /\ args.add_paused) =>
        \A i \in 1..Len(sent) : sent[i].method # "core.resume_torrent"

(***************************************************************************)
(* Properties of test_listen_port, of the labels sent, of the endpoint.    *)
(***************************************************************************)
\* C28: test_listen_port returns True exactly when the server reports the
\* port open and False when it reports it closed: True for a reply with result
\* true, False for a reply with result false or null.
C28_ListenPortFollowsResult ==
    (op = "test_listen_port" /\ pc = "idle" /\ Returned(1)) =>
        /\ recv[1].json.result = JBool(TRUE) =>
               outcome = ReturnValue(JBool(TRUE))
        /\ recv[1].json.result \in {JBool(FALSE), JNull} =>
               outcome = ReturnValue(JBool(FALSE))

\* no character of s is an upper-case letter
IsLowerCase(s) == \A i \in 1..Len(s) : \A k \in 1..26 : UpperCase[k] # s[i]

\* the label argument of request i, if it is a label request
LabelSent(i) ==
    IF sent[i].method = "label.add" THEN sent[i].params[1] ELSE sent[i].params[2]

LabelRequests ==
    {i \in 1..Len(sent) : sent[i].method \in {"label.add", "label.set_torrent"}}

C30_EndpointEndsWithJson ==
    url # Unset =>
        /\ url = Json \/ endswith(url, <<"/">> \o Json)
        /\ ~endswith(url, <<"/">>)

(***************************************************************************)
(* A transport that fails.  session.post raises (requests Timeout when the *)
(* per-call timeout expires, ConnectionError when the server is away)      *)
(* instead of returning a response; execute_call has no try/except, so the *)
(* body of its `with` statement, self.ID += 1 included, is never entered   *)
(* and the exception reaches the caller as it is.                          *)
(***************************************************************************)
TransportError(name) ==
    [msg |-> name, status_code |-> 0, reason |-> "", payload |-> NoPayload,
     error |-> JNull]

TransportErrors == {TransportError("Timeout"), TransportError("ConnectionError")}

\* execute_call when session.post raises `exc`
execute_call_post_raises(exc) == Raise(exc)

CallTransportFails ==
    /\ pc = "execute_call"
    /\ LET payload == Payload(args.method, <<>>, ID)
       IN \E exc \in TransportErrors :
              /\ ids' = Append(ids, payload.id)
              /\ sent' = Append(sent, [method |-> payload.method,
                                       params |-> payload.params,
                                       id |-> payload.id,
                                       timeout |-> args.timeout])
              /\ pc' = "idle"
              /\ outcome' = execute_call_post_raises(exc)
              /\ UNCHANGED <<ID, recv, op, args, scopeVars, otherVars>>

NextTransport ==
    \/ \E m \in SimpleMethods, h \in BOOLEAN : Call(m, h)
    \/ CallRoundTrip
    \/ CallTransportFails

SpecTransport == Init /\ [][NextTransport]_vars

\* the call that has just ended got no HTTP response
TransportFailed ==
    /\ op = "execute_call"
    /\ pc = "idle"
    /\ outcome.kind = "raise"
    /\ outcome.exc \in TransportErrors

\* C34: when the transport attempt of a call fails without an HTTP response
\* the failure is reported to the caller, the request is not retried, and the
\* id counter has still advanced by exactly one, so that the next request
\* uses a fresh id.
C34_TransportFailureAdvancesId ==
    /\ TransportFailed =>
           /\ Len(sent) = 1
           /\ Len(recv) = 0
           /\ ID = sent[1].id + 1
    /\ \A i, j \in 1..Len(ids) : i < j => ids[i] # ids[j]

(***************************************************************************)
(* Properties of the Response id, of the scope, of the login timeouts, of  *)
(* the empty label error.                                                  *)
(***************************************************************************)
\* the request whose reply an operation's returned Response is built from:
\* the ingestion request of an upload, else the operation's only request
AnsweredRequest == IF op = "upload" THEN 1 ELSE Len(sent)

\* C36: the id of a returned Response echoes the id of the request it answers:
\* for every operation that returns a Response built from a server reply, the
\* uploads included, Response.id equals the id sent in that request (the
\* server echoing ids).
C36_ResponseIdEchoesRequest ==
    (op \in {"execute_call", "add_label", "set_label", "upload"}
        /\ pc = "idle" /\ outcome.kind = "return") =>
        outcome.resp.id = JInt(sent[AnsweredRequest].id)

\* C37: when `with client:` hands the client to its body the session is
\* established: the body is never run after a login that returned a failure
\* Response ("Login failed" or "Failed to connect to host").
C37_BodyOnlyAfterLogin ==
    (scope = "body" /\ op = "login") =>
        /\ outcome.kind = "return"
        /\ Truthy(outcome.resp.result)
        /\ outcome.resp.error \notin {JStr(LoginFailed), JStr(FailedToConnect)}

\* C38: every request transmitted during login(timeout=t) is sent with the
\* caller's t: auth.login, both web.connected checks, web.get_hosts and
\* web.connect.
C38_LoginRequestsUseTimeout ==
    op = "login" => \A i \in 1..Len(sent) : sent[i].timeout = args.timeout

\* C39: add_label agrees with execute_call on what an error is: whenever the
\* label.add reply carries no error after normalization (error absent, null, or
\* a string that normalizes to the empty string, "" or "]"), add_label returns
\* the Response and does not raise.
C39_EmptyErrorIsNoError ==
    (op = "add_label" /\ Len(recv) >= 1 /\ recv[1].ok /\ ~Truthy(ErrorOf(1))) =>
        /\ pc = "idle"
        /\ outcome = Return(Response(recv[1].json.result, ErrorOf(1),
                                     recv[1].json.id))

(***************************************************************************)
(* Properties of the TorrentState lookup.                                  *)
(***************************************************************************)
\* the members whose value equals the looked-up string up to letter case
Matching ==
    {k \in 1..Len(Members) :
        /\ state_value.t = "str"
        /\ lower(state_value.s) = lower(__str__(k))}

\* C31: the TorrentState lookup is case-insensitive and total on valid names:
\* for every member m and every string equal to m's value up to letter case
\* the lookup gives m; for every value that matches no member
\* case-insensitively it raises ValueError naming the value.
C31_LookupCaseInsensitive ==
    state_found # NoLookup =>
        /\ \A k \in Matching : state_found = Member(k)
        /\ Matching = {} =>
               /\ state_found.kind = "raise"
               /\ state_found.exc = "ValueError"
               /\ JStr(state_found.value) = state_value

Completed == threads[1].calls + threads[2].calls

\* C32: the id counter is unprotected when two threads call one client: a
\* thread's `self.ID += 1` stores the value it read plus one whatever the other
\* thread has stored since, so increments can be lost (the counter never
\* exceeds, and can stay below, its start value plus the calls made), and the
\* id of a request is the counter value read when its payload was built, so it
\* never exceeds, and can stay below, the number of requests sent before it
\* (two requests can carry the same id).  The interleaving in which both
\* happen is C32_Witness.
C32_UnprotectedCounter ==
    /\ \A t \in Threads :
           (threads[t].calls > 0 /\ threads[t].pc # "store") =>
               threads[t].wrote = threads[t].loaded + 1
    /\ \A i \in 1..Len(ids) : ids[i] <= i - 1
    /\ ID <= Completed

\* both threads have returned: their two requests carried the same id, and the
\* counter is below its start value 0 plus the 2 calls made
C32_Witness ==
    /\ \A t \in Threads : threads[t].pc = "idle" /\ threads[t].calls = 1
    /\ \E i, j \in 1..Len(ids) : i < j /\ ids[i] = ids[j]
    /\ ID < 0 + Completed

(***************************************************************************)
(* Properties of a repeated login.                                         *)
(***************************************************************************)
\* C33: login is idempotent: invoked again on a client whose previous login
\* returned success, the server's link to the daemon still up, it returns
\* success again, and this invocation transmits only auth.login and
\* web.connected, never web.get_hosts or web.connect.
C33_LoginAgain ==
    (op = "login" /\ args.again /\ drops = args.drops) =>
        /\ Len(sent) <= 2
        /\ \A i \in 1..Len(sent) : sent[i].method = <<"auth.login", "web.connected">>[i]
        /\ pc = "idle" =>
               /\ Len(sent) = 2
               /\ outcome = Return(Response(JBool(TRUE), JNull, JNull))

C33_Witness ==
    /\ op = "login"
    /\ args.again
    /\ drops = args.drops
    /\ pc = "idle"
    /\ Methods(sent) = <<"auth.login", "web.connected">>
    /\ Len(ids) > 5

====
